---- MODULE Spec2Model ----
(***************************************************************************)
(* Model of update_data.py: the fetch -> persist -> ISS-merge cycle over   *)
(* the fixed category table, in one-shot and in watch mode.                *)
(*                                                                         *)
(* The file system is the data/ directory (dirExists) and one file per     *)
(* category (files).  A file's content is its text, a sequence of tokens,  *)
(* so that json.dump and json.load are modelled by what they do: a write   *)
(* that fails part-way leaves a torn text that json.load rejects.          *)
(***************************************************************************)
EXTENDS Integers, Sequences, FiniteSets, TLC

VARIABLES
    mode,       \* "oneshot" | "watch": sys.argv[1] == '--watch'
    pc,         \* position of the program
    cycle,      \* number of the current call of update_all_data
    idx,        \* position of the for loop in CATEGORIES (1-based)
    data,       \* local `data` of update_all_data
    iss_data,   \* local `iss_data` of update_all_data
    dirExists,  \* Path('data') is a directory
    files,      \* category -> file data/<category>.json
    out,        \* kind of the last message printed
    attempted,  \* categories fetched so far in this cycle, in order
    failed,     \* categories whose fetch returned None in this cycle
    faults,     \* transport and storage failures so far
    resp,       \* upstream responses held fixed (idempotence runs only)
    firstRun    \* files after the first of two runs (idempotence runs only)

vars == <<mode, pc, cycle, idx, data, iss_data, dirExists, files, out,
          attempted, failed, faults, resp, firstRun>>

----------------------------------------------------------------------------
(* Bounds of the model *)

MaxCycles == 2
MaxLen == 2
MaxFaults == 1

----------------------------------------------------------------------------
(* The category table and the ISS catalog number *)

CategoryOrder ==
    <<"active", "stations", "weather", "noaa", "goes", "resource", "amateur",
      "starlink">>

Categories == {CategoryOrder[i] : i \in 1..Len(CategoryOrder)}

ISS_CATNR == 25544

----------------------------------------------------------------------------
(* Satellite records, datasets and responses *)

Sat(id, epoch) == [NORAD_CAT_ID |-> id, EPOCH |-> epoch]

\* Records an upstream group response may hold: another satellite and the
\* ISS record as the group lists it.
GroupSats == {Sat(20580, 1), Sat(ISS_CATNR, 1)}

\* Records the CATNR response may start with.  Nothing in the program checks
\* that the record returned is the one asked for.
SingleSats == {Sat(ISS_CATNR, 2), Sat(20580, 2)}

SeqsUpTo(S, n) == UNION {[1..k -> S] : k \in 0..n}

None == [ok |-> FALSE, body |-> <<>>]
Some(d) == [ok |-> TRUE, body |-> d]

ActivePayloads == SeqsUpTo(GroupSats, MaxLen)

CategoryPayloads(category) ==
    IF category = "active" THEN ActivePayloads ELSE {<<Sat(20580, 1)>>}

IssPayloads == {<<>>} \cup {<<s>> : s \in SingleSats}
                      \cup {<<Sat(ISS_CATNR, 2), Sat(20580, 2)>>}

----------------------------------------------------------------------------
(* json.dump / json.load on texts *)

Tok(k, v) == [k |-> k, v |-> v]

RECURSIVE Flat(_)
Flat(d) ==
    IF d = <<>> THEN <<>>
    ELSE <<Tok("NORAD_CAT_ID", Head(d).NORAD_CAT_ID), Tok("EPOCH", Head(d).EPOCH)>>
         \o Flat(Tail(d))

JsonDump(d) == <<Tok("[", 0)>> \o Flat(d) \o <<Tok("]", 0)>>

WellFormed(text) ==
    /\ Len(text) >= 2
    /\ Len(text) % 2 = 0
    /\ text[1] = Tok("[", 0)
    /\ text[Len(text)] = Tok("]", 0)
    /\ \A i \in 2..(Len(text) - 1) :
          text[i].k = (IF i % 2 = 0 THEN "NORAD_CAT_ID" ELSE "EPOCH")

\* json.load: the dataset, or a failure (ok = FALSE) on a malformed text.
JsonLoad(text) ==
    IF WellFormed(text)
    THEN Some([i \in 1..((Len(text) - 2) \div 2) |->
                  Sat(text[2 * i].v, text[2 * i + 1].v)])
    ELSE None

\* What a write that fails part-way can leave: any proper prefix of the text
\* (open has truncated the file; none, or only part, of the dump reached it).
TornWrites(text) == {SubSeq(text, 1, k) : k \in 0..(Len(text) - 1)}

----------------------------------------------------------------------------
(* Files *)

Absent == [exists |-> FALSE, text |-> <<>>]
File(text) == [exists |-> TRUE, text |-> text]


\* Mutant: the `if data is None: return` is missing.
SaveToFileWritesNone(fs, category, d) ==
    [fs EXCEPT ![category] = File(JsonDump(d.body))]

\* Mutant: the file is opened with 'a' and the dump lands after what it held.
SaveToFileAppending(fs, category, d) ==
    IF d.ok
    THEN [fs EXCEPT ![category] = File(fs[category].text \o JsonDump(d.body))]
    ELSE fs

\* save_data_to_file when every storage call succeeds: the file is opened
\* with 'w' (truncated) and the dump of `d` is all it holds.
SaveToFile(fs, category, d) ==
    IF d.ok THEN [fs EXCEPT ![category] = File(JsonDump(d.body))] ELSE fs

ActiveFileExists(fs) == fs["active"].exists

----------------------------------------------------------------------------
(* The ISS merge *)

\* Python truthiness of iss_data: None and [] are falsy.
Truthy(d) == d.ok /\ d.body # <<>>

IssPositions(active_data) ==
    {i \in 1..Len(active_data) : active_data[i].NORAD_CAT_ID = ISS_CATNR}

Min(S) == CHOOSE m \in S : \A n \in S : m <= n

\* Mutant: the `break` is missing, so every match is replaced and the else
\* branch appends as well.
MergeIssNoBreak(active_data, iss) ==
    Append([i \in 1..Len(active_data) |->
               IF active_data[i].NORAD_CAT_ID = ISS_CATNR THEN iss[1]
               ELSE active_data[i]],
           iss[1])

\* Mutant: the record is appended whether or not a match exists.
MergeIssAlwaysAppend(active_data, iss) == Append(active_data, iss[1])

\* Mutant: the scan keeps the last match instead of stopping at the first.
MergeIssReplaceLast(active_data, iss) ==
    IF IssPositions(active_data) # {}
    THEN [active_data EXCEPT
             ![CHOOSE m \in IssPositions(active_data) :
                  \A n \in IssPositions(active_data) : n <= m] = iss[1]]
    ELSE Append(active_data, iss[1])

\* Mutant: a record that is not found is inserted at the front.
MergeIssPrepend(active_data, iss) ==
    IF IssPositions(active_data) # {}
    THEN [active_data EXCEPT ![Min(IssPositions(active_data))] = iss[1]]
    ELSE <<iss[1]>> \o active_data

\* The for/else of the merge: replace the first match and break, or append.
MergeIss(active_data, iss) ==
    IF IssPositions(active_data) # {}
    THEN [active_data EXCEPT ![Min(IssPositions(active_data))] = iss[1]]
    ELSE Append(active_data, iss[1])

\* `if iss_data:` and `if active_file.exists():` both pass.
MergeRuns(fs, iss) == Truthy(iss) /\ ActiveFileExists(fs)

\* Mutant: a missing or unreadable active.json is taken for an empty dataset
\* and written.
MergeIntoActiveCreating(fs, iss) ==
    IF Truthy(iss)
    THEN [fs EXCEPT !["active"] =
             File(JsonDump(MergeIss(JsonLoad(fs["active"].text).body, iss.body)))]
    ELSE fs

\* The merge step when every storage call succeeds: nothing is done unless
\* the merge runs; a text json.load rejects raises inside the try, before
\* the file is opened for writing.
MergeIntoActive(fs, iss) ==
    IF MergeRuns(fs, iss) /\ JsonLoad(fs["active"].text).ok
    THEN [fs EXCEPT !["active"] =
             File(JsonDump(MergeIss(JsonLoad(fs["active"].text).body, iss.body)))]
    ELSE fs

\* What the ISS step prints last.
MergeMessage(fs, iss) ==
    IF ~MergeRuns(fs, iss) THEN "fetching_iss"
    ELSE IF JsonLoad(fs["active"].text).ok THEN "updated_iss"
    ELSE "iss_error"

----------------------------------------------------------------------------
(* Initial states *)

NoResp == [c \in Categories \cup {"iss"} |-> None]

NoFiles == [c \in Categories |-> Absent]

\* A fresh checkout without data/, or a data/ directory that holds an
\* active.json from an earlier run.
InitFs ==
    \/ /\ dirExists = FALSE
       /\ files = NoFiles
    \/ /\ dirExists = TRUE
       /\ \E d \in ActivePayloads :
             files = [NoFiles EXCEPT !["active"] = File(JsonDump(d))]

Init ==
    /\ mode \in {"oneshot", "watch"}
    /\ pc = "loop"
    /\ cycle = 1
    /\ idx = 1
    /\ data = None
    /\ iss_data = None
    /\ InitFs
    /\ out = "fetching"
    /\ attempted = <<>>
    /\ failed = {}
    /\ faults = 0
    /\ resp = NoResp
    /\ firstRun = NoFiles

----------------------------------------------------------------------------
(* update_all_data, one pass of the loop body or one ISS step at a time *)

category == CategoryOrder[idx]

fsUnchanged == UNCHANGED <<dirExists, files>>
loopUnchanged == UNCHANGED <<mode, cycle, idx>>
idemUnchanged == UNCHANGED <<resp, firstRun>>

\* One pass of the loop body: print, fetch_category_data, save_data_to_file.
loopFrame ==
    /\ attempted' = Append(attempted, category)
    /\ UNCHANGED iss_data
    /\ loopUnchanged /\ idemUnchanged

\* fetch_category_data catches the RequestException and returns None;
\* save_data_to_file returns at `if data is None`.
FetchError ==
    /\ pc = "loop"
    /\ faults < MaxFaults
    /\ faults' = faults + 1
    /\ data' = None
    /\ files' = SaveToFile(files, category, data')
    /\ failed' = failed \cup {category}
    /\ out' = "fetch_error"
    /\ pc' = "delay"
    /\ UNCHANGED dirExists
    /\ loopFrame

\* data_dir.mkdir(exist_ok=True) fails: it stands outside the try, so the
\* OSError leaves save_data_to_file, update_all_data and watch_mode.
SaveMkdirError ==
    /\ pc = "loop"
    /\ ~dirExists
    /\ \E d \in CategoryPayloads(category) : data' = Some(d)
    /\ out' = "traceback"
    /\ pc' = "raised"
    /\ UNCHANGED <<failed, faults>>
    /\ fsUnchanged
    /\ loopFrame

\* open(file_path, 'w') fails: caught, the file is as it was.
SaveOpenError ==
    /\ pc = "loop"
    /\ faults < MaxFaults
    /\ faults' = faults + 1
    /\ \E d \in CategoryPayloads(category) : data' = Some(d)
    /\ dirExists' = TRUE
    /\ out' = "save_error"
    /\ pc' = "delay"
    /\ UNCHANGED <<files, failed>>
    /\ loopFrame

\* json.dump fails after open truncated the file: caught, the file is torn.
SaveWriteError ==
    /\ pc = "loop"
    /\ faults < MaxFaults
    /\ faults' = faults + 1
    /\ \E d \in CategoryPayloads(category) :
          /\ data' = Some(d)
          /\ \E t \in TornWrites(JsonDump(d)) :
                files' = [files EXCEPT ![category] = File(t)]
    /\ dirExists' = TRUE
    /\ out' = "save_error"
    /\ pc' = "delay"
    /\ UNCHANGED failed
    /\ loopFrame

Saved ==
    /\ pc = "loop"
    /\ \E d \in CategoryPayloads(category) :
          /\ data' = Some(d)
          /\ files' = SaveToFile(files, category, Some(d))
    /\ dirExists' = TRUE
    /\ out' = "saved"
    /\ pc' = "delay"
    /\ UNCHANGED <<failed, faults>>
    /\ loopFrame

\* Mutant: the loop leaves one category early.
AfterDelayEarly(i) == IF i >= Len(CategoryOrder) - 1 THEN "iss" ELSE "loop"

\* Where the loop goes after the pass for position i: the next category or,
\* after the last, the ISS step.
AfterDelay(i) == IF i = Len(CategoryOrder) THEN "iss" ELSE "loop"

\* time.sleep(1) at the end of the loop body.
Delay ==
    /\ pc = "delay"
    /\ idx' = idx + 1
    /\ pc' = AfterDelay(idx)
    /\ UNCHANGED <<mode, cycle, out, attempted, failed, faults, data, iss_data>>
    /\ fsUnchanged /\ idemUnchanged

\* The ISS step: print, fetch_iss_data, and the merge into active.json.
issFrame ==
    /\ pc' = "returned"
    /\ UNCHANGED <<dirExists, attempted, failed, data>>
    /\ loopUnchanged /\ idemUnchanged

\* fetch_iss_data catches the RequestException and returns None.
IssFetchError ==
    /\ pc = "iss"
    /\ faults < MaxFaults
    /\ faults' = faults + 1
    /\ iss_data' = None
    /\ out' = "iss_fetch_error"
    /\ UNCHANGED files
    /\ issFrame

\* The ISS response arrives and every storage call succeeds: the merge is
\* skipped, fails on a text json.load rejects, or rewrites active.json.
IssMerge ==
    /\ pc = "iss"
    /\ \E d \in IssPayloads : iss_data' = Some(d)
    /\ files' = MergeIntoActive(files, iss_data')
    /\ out' = MergeMessage(files, iss_data')
    /\ UNCHANGED faults
    /\ issFrame

\* Either open of active.json fails: caught, the file is as it was.
MergeOpenError ==
    /\ pc = "iss"
    /\ faults < MaxFaults
    /\ faults' = faults + 1
    /\ \E d \in IssPayloads : iss_data' = Some(d)
    /\ MergeRuns(files, iss_data')
    /\ out' = "iss_error"
    /\ UNCHANGED files
    /\ issFrame

\* json.dump of the merged dataset fails after open truncated the file.
MergeWriteError ==
    /\ pc = "iss"
    /\ faults < MaxFaults
    /\ faults' = faults + 1
    /\ \E d \in IssPayloads : iss_data' = Some(d)
    /\ MergeRuns(files, iss_data')
    /\ JsonLoad(files["active"].text).ok
    /\ \E t \in TornWrites(MergeIntoActive(files, iss_data')["active"].text) :
          files' = [files EXCEPT !["active"] = File(t)]
    /\ out' = "iss_error"
    /\ issFrame

----------------------------------------------------------------------------
(* The callers of update_all_data *)

stepFrame ==
    /\ UNCHANGED <<mode, data, iss_data, attempted, failed, faults, idx, cycle>>
    /\ fsUnchanged /\ idemUnchanged

\* One-shot: the process exits after the cycle.
Exit ==
    /\ pc = "returned"
    /\ mode = "oneshot"
    /\ pc' = "exit"
    /\ UNCHANGED out
    /\ stepFrame

\* watch_mode: print, then time.sleep(3600).
WatchSleep ==
    /\ pc = "returned"
    /\ mode = "watch"
    /\ pc' = "sleep"
    /\ out' = "waiting"
    /\ stepFrame

\* watch_mode: the sleep ends and update_all_data is called again.
WatchWake ==
    /\ pc = "sleep"
    /\ cycle < MaxCycles
    /\ cycle' = cycle + 1
    /\ idx' = 1
    /\ pc' = "loop"
    /\ data' = None
    /\ iss_data' = None
    /\ attempted' = <<>>
    /\ failed' = {}
    /\ out' = "fetching"
    /\ UNCHANGED <<mode, faults>>
    /\ fsUnchanged /\ idemUnchanged

Next ==
    \/ FetchError
    \/ SaveMkdirError
    \/ SaveOpenError
    \/ SaveWriteError
    \/ Saved
    \/ Delay
    \/ IssFetchError
    \/ IssMerge
    \/ MergeOpenError
    \/ MergeWriteError
    \/ Exit
    \/ WatchSleep
    \/ WatchWake

Spec == Init /\ [][Next]_vars

----------------------------------------------------------------------------
(* Two runs of update_all_data against the same upstream responses, with    *)
(* every storage call succeeding.                                           *)

\* The for loop from position i on: fetch and save each category in turn.
RECURSIVE SaveAll(_, _, _)
SaveAll(fs, r, i) ==
    IF i > Len(CategoryOrder) THEN fs
    ELSE SaveAll(SaveToFile(fs, CategoryOrder[i], r[CategoryOrder[i]]), r, i + 1)

UpdateAllData(fs, r) == MergeIntoActive(SaveAll(fs, r, 1), r["iss"])

Requests == Categories \cup {"iss"}

\* One response per request: the requests in `down` fail, the others return
\* a payload.
ResponsesWith(down, a, i) ==
    [q \in Requests |->
        IF q \in down THEN None
        ELSE IF q = "iss" THEN Some(i)
        ELSE IF q = "active" THEN Some(a)
        ELSE Some(<<Sat(20580, 1)>>)]

\* A data/ directory as earlier runs can have left it.
OldFiles ==
    {[c \in Categories |->
         IF c = "active" THEN a ELSE o] :
       a \in {Absent, File(<<>>)} \cup {File(JsonDump(d)) : d \in ActivePayloads},
       o \in {Absent, File(JsonDump(<<Sat(20580, 0)>>))}}

InitIdem ==
    /\ mode = "oneshot"
    /\ pc = "first"
    /\ cycle = 1
    /\ idx = 1
    /\ data = None
    /\ iss_data = None
    /\ files \in OldFiles
    /\ dirExists = (\E c \in Categories : files[c].exists)
    /\ out = "fetching"
    /\ attempted = <<>>
    /\ failed = {}
    /\ faults = 0
    /\ \E down \in {D \in SUBSET Requests : Cardinality(D) <= MaxFaults} :
          \E a \in ActivePayloads, i \in IssPayloads :
             resp = ResponsesWith(down, a, i)
    /\ firstRun = NoFiles

idemFrame ==
    /\ dirExists' = (dirExists \/ \E c \in Categories : resp[c].ok)
    /\ UNCHANGED <<mode, idx, data, iss_data, out, attempted, failed, faults, resp>>

FirstRun ==
    /\ pc = "first"
    /\ files' = UpdateAllData(files, resp)
    /\ firstRun' = files'
    /\ pc' = "second"
    /\ UNCHANGED cycle
    /\ idemFrame

SecondRun ==
    /\ pc = "second"
    /\ files' = UpdateAllData(files, resp)
    /\ cycle' = cycle + 1
    /\ pc' = "twice"
    /\ UNCHANGED firstRun
    /\ idemFrame

NextIdem == FirstRun \/ SecondRun

SpecIdem == InitIdem /\ [][NextIdem]_vars

----------------------------------------------------------------------------
(* Properties *)

IsPrefix(s, t) == Len(s) <= Len(t) /\ SubSeq(t, 1, Len(s)) = s

\* The dataset active.json holds, as json.load reads it.
ActiveData == JsonLoad(files["active"].text)

IssCount(d) == Cardinality(IssPositions(d))

\* The ISS step that rewrote active.json: old and new dataset, fetched record.
MergeDone == pc = "iss" /\ out' = "updated_iss"
OldActive == JsonLoad(files["active"].text).body
NewActive == JsonLoad(files'["active"].text)
FetchedIss == iss_data'.body[1]

\* C1 as stated: after a cycle whose merge rewrote active.json with a
\* fetched record that carries NORAD_CAT_ID 25544, the active dataset holds
\* at most one record with that identifier and that record is the first
\* record of the fetched ISS dataset, whatever the dataset held before
\* (several records with that identifier included).
C1_AtMostOneIssRecord ==
    (/\ pc = "returned"
     /\ out = "updated_iss"
     /\ iss_data.body[1].NORAD_CAT_ID = ISS_CATNR) =>
        /\ ActiveData.ok
        /\ IssCount(ActiveData.body) <= 1
        /\ \A i \in IssPositions(ActiveData.body) :
              ActiveData.body[i] = iss_data.body[1]

\* C1 amended: when the merge rewrites active.json with a fetched record
\* that carries NORAD_CAT_ID 25544, the first record with that identifier
\* (or a new last record, if there was none) is the fetched record and the
\* number of such records is what it was, or 1 if there was none; so a
\* dataset that held at most one such record holds exactly one afterwards,
\* the fetched one.
C1_OneIssRecordIfAtMostOneBefore ==
    [][(MergeDone /\ FetchedIss.NORAD_CAT_ID = ISS_CATNR) =>
          /\ pc' = "returned"
          /\ NewActive.ok
          /\ FetchedIss \in {NewActive.body[i] : i \in IssPositions(NewActive.body)}
          /\ IssCount(NewActive.body) =
                (IF IssCount(OldActive) = 0 THEN 1 ELSE IssCount(OldActive))
          /\ IssCount(OldActive) <= 1 =>
                \A i \in IssPositions(NewActive.body) :
                    NewActive.body[i] = FetchedIss]_vars

C1_Witness ==
    /\ pc = "returned"
    /\ out = "updated_iss"
    /\ iss_data.body[1].NORAD_CAT_ID = ISS_CATNR
    /\ IssCount(ActiveData.body) = 1
    /\ Len(ActiveData.body) = MaxLen

C3_NoStorageFailureAborts == pc # "raised"

C5_MergeReplacesInPlace ==
    [][(MergeDone /\ IssPositions(OldActive) # {}) =>
          /\ NewActive.ok
          /\ Len(NewActive.body) = Len(OldActive)
          /\ \A i \in 1..Len(OldActive) :
                NewActive.body[i] =
                    (IF /\ i \in IssPositions(OldActive)
                        /\ \A j \in IssPositions(OldActive) : i <= j
                     THEN FetchedIss ELSE OldActive[i])]_vars

C5_Witness ==
    /\ pc = "returned"
    /\ out = "updated_iss"
    /\ cycle = 1
    /\ Len(ActiveData.body) = MaxLen
    /\ ActiveData.body[1] = iss_data.body[1]
    /\ \A i \in 2..MaxLen : ActiveData.body[i].NORAD_CAT_ID # ISS_CATNR

\* C6: when the merge rewrites an active dataset that holds no record with
\* NORAD_CAT_ID 25544, the new dataset is the old one followed by the first
\* fetched ISS record.
C6_MergeAppends ==
    [][(MergeDone /\ IssPositions(OldActive) = {}) =>
          /\ NewActive.ok
          /\ Len(NewActive.body) = Len(OldActive) + 1
          /\ NewActive.body[Len(OldActive) + 1] = FetchedIss
          /\ \A i \in 1..Len(OldActive) : NewActive.body[i] = OldActive[i]]_vars

C6_Witness ==
    /\ pc = "returned"
    /\ out = "updated_iss"
    /\ cycle = 1
    /\ Len(ActiveData.body) = MaxLen + 1
    /\ ActiveData.body[MaxLen + 1] = iss_data.body[1]

\* C7: when active.json does not exist as the ISS step is reached, the step
\* writes nothing, creates no file and ends the cycle normally.
C7_MergeNoOpWithoutActive ==
    [][(pc = "iss" /\ ~files["active"].exists) =>
          /\ files' = files
          /\ dirExists' = dirExists
          /\ pc' = "returned"
          /\ out' # "updated_iss"]_vars

C7_Witness ==
    /\ pc = "returned"
    /\ Truthy(iss_data)
    /\ ~files["active"].exists
    /\ files["stations"].exists

\* C8: right after a pass of the loop that fetched and saved a category,
\* the category's file reads back as the fetched payload and holds nothing
\* but its dump.
C8_SavedFileIsPayload ==
    (pc = "delay" /\ out = "saved") =>
        /\ data.ok
        /\ files[CategoryOrder[idx]].exists
        /\ JsonLoad(files[CategoryOrder[idx]].text) = data
        /\ Len(files[CategoryOrder[idx]].text) = 2 * Len(data.body) + 2

C8_Witness ==
    /\ pc = "delay"
    /\ out = "saved"
    /\ cycle = 2
    /\ faults = 0
    /\ CategoryOrder[idx] = "active"
    /\ Len(data.body) = 1

\* C9 as stated: in watch mode the job never terminates on its own.
C9_WatchNeverTerminates == mode = "watch" => pc \notin {"raised", "exit"}

\* C10: the ISS step starts only after every category has been attempted,
\* changes no file but active.json, and changes no file at all when the ISS
\* fetch fails or returns an empty array, ending the cycle normally.
C10_IssStepFrame ==
    /\ [](pc = "iss" => (attempted = CategoryOrder /\ idx = Len(CategoryOrder) + 1))
    /\ [][pc = "iss" =>
            /\ \A c \in Categories \ {"active"} : files'[c] = files[c]
            /\ ~Truthy(iss_data') => (files' = files /\ pc' = "returned")]_vars

C10_Witness ==
    /\ pc = "returned"
    /\ iss_data = Some(<<>>)
    /\ files["active"].exists
    /\ out = "fetching_iss"

====
